---- MODULE Spec2Model ----
(***************************************************************************)
(* The daily-selection state machine of random-place-picker (src/app.py):  *)
(* the scheduled jobs pick_places and pick_final_place, the read endpoint  *)
(* get_choices, the process-local CACHE and the daily_selection table.     *)
(*                                                                         *)
(* Spec runs each handler as one step.  SpecThreads runs pick_places and   *)
(* get_choices on two threads, one access of a CACHE key per step.         *)
(*                                                                         *)
(* Representation.  A Python str is a sequence of one-character strings,   *)
(* so that ",".join and str.split(",") are computed, not assumed.  None,   *)
(* the empty list and the empty str are all falsy in Python and are all    *)
(* written <<>>.  A datetime.datetime is [kind |-> "datetime", v |-> h]    *)
(* with h the hours since midnight of day 0; a datetime.time is            *)
(* [kind |-> "time", v |-> h] with h the hour of the day; a missing        *)
(* gathering time is NoTime.  The clock advances in half days.             *)
(***************************************************************************)
EXTENDS Integers, Sequences, FiniteSets

VARIABLES placesTable, hoursTable, rows, CACHE, now, last, inflight

vars == <<placesTable, hoursTable, rows, CACHE, now, last, inflight>>

----------------------------------------------------------------------------
(* Bounds of the model *)

\* the clock is advanced at most MaxTicks times (half a day each)
MaxTicks == 2

\* random.sample draws are enumerated for the offsets 0..MaxOffset
MaxOffset == 0

(* Program constants *)

\* hours in a calendar day (datetime)
DayLen == 24

\* the finalization window, 2 * 60 * 60 seconds, in hours
TwoHours == 2

\* random.randint(3, 5)
MinPlaces == 3
MaxPlaces == 5

----------------------------------------------------------------------------
(* Values *)

NoTime == [kind |-> "none", v |-> 0]

Time(h) == [kind |-> "time", v |-> h]

DateTime(h) == [kind |-> "datetime", v |-> h]

\* a place name as a str
Name(c) == <<c>>

\* the seeded catalogs the model draws its store from
PlaceCatalogs == { <<>>, <<Name("A"), Name("B"), Name("C"), Name("D")>> }

HourCatalogs == { <<>>, <<"02:00", "14:00">> }

\* datetime.datetime.strptime(s, "%H:%M").time(), for the "HH:MM" strings of the model
strptime(s) == Time(CASE s = "02:00" -> 2 [] s = "14:00" -> 14)

\* datetime.date.today(), as a day number
Today == now \div DayLen

\* datetime.datetime.combine(date, time)
combine(date, time) == DateTime(date * DayLen + time.v)

\* the state of the store during one handler: every statement succeeds, every
\* statement raises, or the queries succeed and db.commit() raises
DbStates == {"up", "down", "read_only"}

Range(s) == { s[i] : i \in DOMAIN s }

----------------------------------------------------------------------------
(* str.join and str.split *)

RECURSIVE Join(_)
\* ",".join(names)
Join(names) ==
    IF names = <<>> THEN <<>>
    ELSE IF Len(names) = 1 THEN names[1]
    ELSE names[1] \o <<",">> \o Join(Tail(names))

\* the position of the first "," of s, or 0
FirstComma(s) ==
    IF \E i \in DOMAIN s : s[i] = ","
    THEN CHOOSE i \in DOMAIN s : s[i] = "," /\ \A j \in 1..(i - 1) : s[j] # ","
    ELSE 0

RECURSIVE Split(_)
\* s.split(",")
Split(s) ==
    IF FirstComma(s) = 0 THEN <<s>>
    ELSE <<SubSeq(s, 1, FirstComma(s) - 1)>>
             \o Split(SubSeq(s, FirstComma(s) + 1, Len(s)))

----------------------------------------------------------------------------
(* The store: queries *)

\* [place.name for place in db.query(Place).all()], [] when the query raises
get_available_places(db) == IF db = "down" THEN <<>> ELSE placesTable

\* [hour.time for hour in db.query(AvailableHour).all()], [] when the query raises
get_available_hours(db) == IF db = "down" THEN <<>> ELSE hoursTable

\* the indices of the rows rs whose date is today
TodayRows(rs) == { i \in DOMAIN rs : rs[i].date = Today }

\* db.query(DailySelection).filter(date == today).first(): the index of the
\* row in rs, 0 for None (no such row, or the query raised)
get_today_selection(rs, db) ==
    IF db = "down" \/ TodayRows(rs) = {} THEN 0
    ELSE CHOOSE i \in TodayRows(rs) : \A j \in TodayRows(rs) : i <= j

\* <<available_places, available_hours>>, or <<>> for the bare return (None)
_get_available_places_and_hours(db) ==
    IF get_available_places(db) = <<>> \/ get_available_hours(db) = <<>>
    THEN <<>>
    ELSE <<get_available_places(db), get_available_hours(db)>>

\* <<places.split(","), gathering_time>> of today's row, or <<>> for None
_get_places_and_gathering_time_from_db(rs, db) ==
    IF get_today_selection(rs, db) = 0 THEN <<>>
    ELSE <<Split(rs[get_today_selection(rs, db)].places),
           DateTime(rs[get_today_selection(rs, db)].gathering_time)>>

----------------------------------------------------------------------------
(* Random draws *)

\* random.sample(population, k) for k <= len(population): a list of k elements
\* at distinct positions.  The model enumerates the draws that take k
\* consecutive positions (cyclically) from the offsets 0..MaxOffset.
random_sample(population, k) ==
    { [i \in 1..k |-> population[((r + i - 1) % Len(population)) + 1]] :
          r \in 0..MaxOffset }

\* a draw from the whole catalog instead of the given list
random_choice_of_catalog(seq) == Range(placesTable)

\* random.choice(seq)
random_choice(seq) == Range(seq)

\* the outcomes of _pick_place_and_time: random.sample raises ValueError when
\* num_places exceeds the population
_pick_place_and_time(available_places, available_hours) ==
    { [raised |-> TRUE, selected_places |-> <<>>, gathering_time |-> NoTime] :
          num_places \in { n \in MinPlaces..MaxPlaces : n > Len(available_places) } }
    \cup
    UNION { { [raised |-> FALSE, selected_places |-> sp, gathering_time |-> strptime(h)] :
                  sp \in random_sample(available_places, num_places),
                  h \in Range(available_hours) } :
              num_places \in { n \in MinPlaces..MaxPlaces : n <= Len(available_places) } }

----------------------------------------------------------------------------
(* Cache and store writes *)

EmptyCache == [today_choices |-> <<>>, final_place |-> <<>>, gathering_time |-> NoTime]

\* the gathering time left out of the cache write
_store_in_cache_places_only(cache, selected_places, gathering_time) ==
    [cache EXCEPT !.today_choices = selected_places]

_store_in_cache(cache, selected_places, gathering_time) ==
    [cache EXCEPT !.today_choices = selected_places,
                  !.gathering_time = gathering_time]

\* the insert without the unique constraint on the date column
_store_in_db_without_unique(rs, db, selected_places, gathering_time) ==
    IF db # "up"
    THEN [raised |-> TRUE, rows |-> rs]
    ELSE [raised |-> FALSE,
          rows |-> Append(rs, [date |-> Today,
                               places |-> Join(selected_places),
                               gathering_time |-> combine(Today, gathering_time).v,
                               final_place |-> <<>>])]

\* db.add(selection); db.commit(): the date column is unique and defaults to
\* today, so the commit raises when today's row exists (or the store is not up)
_store_in_db(rs, db, selected_places, gathering_time) ==
    IF db # "up" \/ TodayRows(rs) # {}
    THEN [raised |-> TRUE, rows |-> rs]
    ELSE [raised |-> FALSE,
          rows |-> Append(rs, [date |-> Today,
                               places |-> Join(selected_places),
                               gathering_time |-> combine(Today, gathering_time).v,
                               final_place |-> <<>>])]

\* gathering_time - datetime.datetime.now() is defined between datetimes only
CanSubtractNow(gathering_time) == gathering_time.kind = "datetime"

\* the window taken in days instead of hours
_is_within_two_days_from_now(gathering_time) ==
    gathering_time.v - now <= TwoHours * DayLen

_is_within_two_hours_from_now(gathering_time) ==
    gathering_time.v - now <= TwoHours

\* _set_final_place with final_place the value random.choice returned
\* _set_final_place creating today's row when it finds none
_set_final_place_upsert(cache, rs, db, final_place) ==
    [CACHE |-> [cache EXCEPT !.final_place = final_place],
     rows  |-> IF db # "up"
               THEN rs
               ELSE IF get_today_selection(rs, db) = 0
               THEN Append(rs, [date |-> Today, places |-> <<>>,
                                gathering_time |-> now, final_place |-> final_place])
               ELSE [rs EXCEPT ![get_today_selection(rs, db)].final_place = final_place]]

_set_final_place(cache, rs, db, final_place) ==
    [CACHE |-> [cache EXCEPT !.final_place = final_place],
     rows  |-> IF get_today_selection(rs, db) = 0 \/ db = "read_only"
               THEN rs
               ELSE [rs EXCEPT ![get_today_selection(rs, db)].final_place = final_place]]

\* not (selected_places and gathering_time)
Cold(cache) == ~ (cache.today_choices # <<>> /\ cache.gathering_time.kind # "none")

----------------------------------------------------------------------------
(* What the last handler did: its name, whether it returned or raised past  *)
(* its caller, the response of get_choices, and the number of statements it *)
(* ran against the store (queries and commits).                             *)

NoResponse ==
    [message |-> "", today_choices |-> <<>>, gathering_time |-> NoTime,
     final_place |-> <<>>]

\* {"message": "No selection made yet."}
Sentinel == [NoResponse EXCEPT !.message = "No selection made yet."]

Response(selected_places, gathering_time, final_place) ==
    [message |-> "", today_choices |-> selected_places,
     gathering_time |-> gathering_time, final_place |-> final_place]

Did(op, result, response, statements) ==
    [op |-> op, result |-> result, response |-> response, statements |-> statements]

NoOp == Did("none", "none", NoResponse, 0)

\* The handlers in flight when they overlap: the pick_places job and one
\* get_choices request, each with its position and its local variables
\* selected_places and gathering_time, and picks, the selections pick_places
\* has drawn so far (places and time of day).  Idle: none is running.
Thread(pc, selected_places, gathering_time, statements) ==
    [pc |-> pc, selected_places |-> selected_places,
     gathering_time |-> gathering_time, statements |-> statements]

IdleThread == Thread("idle", <<>>, NoTime, 0)

Idle == [job |-> IdleThread, request |-> IdleThread, picks |-> {}]

----------------------------------------------------------------------------
(* Initial state: CACHE as the module creates it, the catalogs as they were *)
(* provisioned, and the daily_selection table empty or holding the row     *)
(* seed_db adds for today.                                                  *)

SeedRows ==
    { <<[date |-> 0, places |-> Join(p.selected_places),
         gathering_time |-> combine(0, p.gathering_time).v,
         final_place |-> <<>>]>> :
          p \in { q \in _pick_place_and_time(placesTable, hoursTable) : ~ q.raised } }

Init ==
    /\ placesTable \in PlaceCatalogs
    /\ hoursTable \in HourCatalogs
    /\ rows \in {<<>>} \cup
                (IF placesTable # <<>> /\ hoursTable # <<>> THEN SeedRows ELSE {})
    /\ CACHE = EmptyCache
    /\ now = 0
    /\ last = NoOp
    /\ inflight = Idle

----------------------------------------------------------------------------
(* The scheduled job pick_places *)

\* pick_places without its try/except: the TypeError of unpacking None and
\* the ValueError of random.sample leave the job
pick_places_uncaught(db) ==
    /\ UNCHANGED <<placesTable, hoursTable, now, inflight>>
    /\ IF _get_available_places_and_hours(db) = <<>>
       THEN /\ UNCHANGED <<rows, CACHE>>
            /\ last' = Did("pick_places", "raised", NoResponse, 2)
       ELSE \E p \in _pick_place_and_time(_get_available_places_and_hours(db)[1],
                                          _get_available_places_and_hours(db)[2]) :
              IF p.raised
              THEN /\ UNCHANGED <<rows, CACHE>>
                   /\ last' = Did("pick_places", "raised", NoResponse, 2)
              ELSE /\ CACHE' = _store_in_cache(CACHE, p.selected_places, p.gathering_time)
                   /\ rows' = _store_in_db(rows, db, p.selected_places,
                                           p.gathering_time).rows
                   /\ last' = Did("pick_places",
                                  IF _store_in_db(rows, db, p.selected_places,
                                                  p.gathering_time).raised
                                  THEN "raised" ELSE "returned",
                                  NoResponse, 3)

pick_places(db) ==
    /\ UNCHANGED <<placesTable, hoursTable, now, inflight>>
    /\ IF _get_available_places_and_hours(db) = <<>>
       THEN \* *None raises TypeError inside the try: logged
            /\ UNCHANGED <<rows, CACHE>>
            /\ last' = Did("pick_places", "returned", NoResponse,
                           2)
       ELSE \E p \in _pick_place_and_time(_get_available_places_and_hours(db)[1],
                                          _get_available_places_and_hours(db)[2]) :
              IF p.raised
              THEN /\ UNCHANGED <<rows, CACHE>>
                   /\ last' = Did("pick_places", "returned", NoResponse, 2)
              ELSE /\ CACHE' = _store_in_cache(CACHE, p.selected_places, p.gathering_time)
                   /\ rows' = _store_in_db(rows, db, p.selected_places,
                                           p.gathering_time).rows
                   /\ last' = Did("pick_places", "returned", NoResponse, 3)

----------------------------------------------------------------------------
(* The scheduled job pick_final_place *)

\* the short-circuit left out
NeverSelected(cache) == FALSE

\* if CACHE[FINAL_PLACE]
AlreadySelected(cache) == cache.final_place # <<>>

pick_final_place(db) ==
    /\ UNCHANGED <<placesTable, hoursTable, now, inflight>>
    /\ IF AlreadySelected(CACHE)
       THEN /\ UNCHANGED <<rows, CACHE>>
            /\ last' = Did("pick_final_place", "returned", NoResponse, 0)
       ELSE IF Cold(CACHE) /\ _get_places_and_gathering_time_from_db(rows, db) = <<>>
       THEN \* unpacking None raises TypeError outside any try
            /\ UNCHANGED <<rows, CACHE>>
            /\ last' = Did("pick_final_place", "raised", NoResponse, 1)
       ELSE LET cold == Cold(CACHE)
                fromdb == _get_places_and_gathering_time_from_db(rows, db)
                selected_places == IF cold THEN fromdb[1] ELSE CACHE.today_choices
                gathering_time == IF cold THEN fromdb[2] ELSE CACHE.gathering_time
                cache1 == IF cold
                          THEN _store_in_cache(CACHE, selected_places, gathering_time)
                          ELSE CACHE
                n == IF cold THEN 1 ELSE 0
            IN  IF ~ CanSubtractNow(gathering_time)
                THEN \* datetime.time - datetime.datetime raises TypeError
                     /\ UNCHANGED rows
                     /\ CACHE' = cache1
                     /\ last' = Did("pick_final_place", "raised", NoResponse, n)
                ELSE IF ~ _is_within_two_hours_from_now(gathering_time)
                THEN /\ UNCHANGED rows
                     /\ CACHE' = cache1
                     /\ last' = Did("pick_final_place", "returned", NoResponse, n)
                ELSE \E final_place \in random_choice(selected_places) :
                       /\ CACHE' = _set_final_place(cache1, rows, db, final_place).CACHE
                       /\ rows' = _set_final_place(cache1, rows, db, final_place).rows
                       /\ last' = Did("pick_final_place", "returned", NoResponse,
                                      IF get_today_selection(rows, db) = 0
                                      THEN n + 1 ELSE n + 2)

----------------------------------------------------------------------------
(* The read endpoint get_choices *)

\* get_choices finalizing on read: inside the window, with no final place in
\* the cache or in today's row, it draws one and commits it
get_choices_finalizing(db) ==
    /\ UNCHANGED <<placesTable, hoursTable, now, inflight>>
    /\ IF Cold(CACHE) /\ _get_places_and_gathering_time_from_db(rows, db) = <<>>
       THEN /\ UNCHANGED <<rows, CACHE>>
            /\ last' = Did("get_choices", "raised", NoResponse, 1)
       ELSE LET cold == Cold(CACHE)
                fromdb == _get_places_and_gathering_time_from_db(rows, db)
                selected_places == IF cold THEN fromdb[1] ELSE CACHE.today_choices
                gathering_time == IF cold THEN fromdb[2] ELSE CACHE.gathering_time
                cache1 == IF cold
                          THEN _store_in_cache(CACHE, selected_places, gathering_time)
                          ELSE CACHE
                n == IF cold THEN 1 ELSE 0
                today_selection == get_today_selection(rows, db)
            IN  IF cache1.final_place # <<>>
                THEN /\ CACHE' = cache1
                     /\ UNCHANGED rows
                     /\ last' = Did("get_choices", "returned",
                                    Response(selected_places, gathering_time,
                                             cache1.final_place), n)
                ELSE IF ~ CanSubtractNow(gathering_time)
                THEN /\ CACHE' = cache1
                     /\ UNCHANGED rows
                     /\ last' = Did("get_choices", "raised", NoResponse, n)
                ELSE IF _is_within_two_hours_from_now(gathering_time)
                        /\ today_selection # 0
                        /\ rows[today_selection].final_place # <<>>
                THEN /\ CACHE' = [cache1 EXCEPT !.final_place =
                                      rows[today_selection].final_place]
                     /\ UNCHANGED rows
                     /\ last' = Did("get_choices", "returned",
                                    Response(selected_places, gathering_time,
                                             rows[today_selection].final_place), n + 1)
                ELSE IF _is_within_two_hours_from_now(gathering_time)
                THEN \E final_place \in random_choice(selected_places) :
                       /\ CACHE' = _set_final_place(cache1, rows, db, final_place).CACHE
                       /\ rows' = _set_final_place(cache1, rows, db, final_place).rows
                       /\ last' = Did("get_choices", "returned",
                                      Response(selected_places, gathering_time,
                                               final_place), n + 2)
                ELSE /\ CACHE' = cache1
                     /\ UNCHANGED rows
                     /\ last' = Did("get_choices", "returned",
                                    Response(selected_places, gathering_time, <<>>), n)

get_choices(db) ==
    /\ UNCHANGED <<placesTable, hoursTable, now, rows, inflight>>
    /\ IF Cold(CACHE) /\ _get_places_and_gathering_time_from_db(rows, db) = <<>>
       THEN \* unpacking None raises TypeError: the request fails
            /\ UNCHANGED CACHE
            /\ last' = Did("get_choices", "raised", NoResponse, 1)
       ELSE LET cold == Cold(CACHE)
                fromdb == _get_places_and_gathering_time_from_db(rows, db)
                selected_places == IF cold THEN fromdb[1] ELSE CACHE.today_choices
                gathering_time == IF cold THEN fromdb[2] ELSE CACHE.gathering_time
                cache1 == IF cold
                          THEN _store_in_cache(CACHE, selected_places, gathering_time)
                          ELSE CACHE
                n == IF cold THEN 1 ELSE 0
                today_selection == get_today_selection(rows, db)
            IN  IF cache1.final_place # <<>>
                THEN /\ CACHE' = cache1
                     /\ last' = Did("get_choices", "returned",
                                    Response(selected_places, gathering_time,
                                             cache1.final_place), n)
                ELSE IF ~ CanSubtractNow(gathering_time)
                THEN /\ CACHE' = cache1
                     /\ last' = Did("get_choices", "raised", NoResponse, n)
                ELSE IF _is_within_two_hours_from_now(gathering_time)
                        /\ today_selection # 0
                        /\ rows[today_selection].final_place # <<>>
                THEN /\ CACHE' = [cache1 EXCEPT !.final_place =
                                      rows[today_selection].final_place]
                     /\ last' = Did("get_choices", "returned",
                                    Response(selected_places, gathering_time,
                                             rows[today_selection].final_place), n + 1)
                ELSE /\ CACHE' = cache1
                     /\ last' = Did("get_choices", "returned",
                                    Response(selected_places, gathering_time, <<>>),
                                    IF _is_within_two_hours_from_now(gathering_time)
                                    THEN n + 1 ELSE n)

----------------------------------------------------------------------------
(* The environment: a process restart re-creates CACHE; the clock advances  *)
(* by half a day.                                                           *)

Restart ==
    /\ CACHE' = EmptyCache
    /\ last' = NoOp
    /\ inflight' = Idle
    /\ UNCHANGED <<placesTable, hoursTable, rows, now>>

Tick ==
    /\ now + DayLen \div 2 <= MaxTicks * (DayLen \div 2)
    /\ now' = now + DayLen \div 2
    /\ last' = NoOp
    /\ UNCHANGED <<placesTable, hoursTable, rows, CACHE, inflight>>

PickPlaces == \E db \in DbStates : pick_places(db)

PickFinalPlace == \E db \in DbStates : pick_final_place(db)

GetChoices == \E db \in DbStates : get_choices(db)

Next == PickPlaces \/ PickFinalPlace \/ GetChoices \/ Restart \/ Tick

Spec == Init /\ [][Next]_vars

\* the scheduler fires pick_final_place every 15 minutes: a tick that can
\* change the state is eventually taken
FairSpec == Spec /\ WF_vars(pick_final_place("up"))

----------------------------------------------------------------------------
(* pick_places and get_choices on two threads.  The scheduler thread runs   *)
(* the job while the server thread answers a request; CACHE is a plain dict *)
(* shared without a lock, so the threads interleave between any two        *)
(* accesses of a CACHE key.  A session commit or query is one step.         *)

\* pick_places up to the draw: both catalogue queries and
\* _pick_place_and_time
job_pick(db) ==
    /\ inflight.job.pc = "idle"
    /\ UNCHANGED <<placesTable, hoursTable, now, rows, CACHE>>
    /\ IF _get_available_places_and_hours(db) = <<>>
       THEN /\ last' = Did("pick_places", "returned", NoResponse, 2)
            /\ UNCHANGED inflight
       ELSE \E p \in _pick_place_and_time(_get_available_places_and_hours(db)[1],
                                          _get_available_places_and_hours(db)[2]) :
              IF p.raised
              THEN /\ last' = Did("pick_places", "returned", NoResponse, 2)
                   /\ UNCHANGED inflight
              ELSE /\ inflight' = [inflight EXCEPT
                           !.job = Thread("cache_places", p.selected_places,
                                          p.gathering_time, 2),
                           !.picks = @ \cup
                               { [selected_places |-> p.selected_places,
                                  gathering_time |-> p.gathering_time] }]
                   /\ UNCHANGED last

\* _store_in_cache, first assignment: CACHE[TODAY_CHOICES] = selected_places
job_cache_places ==
    /\ inflight.job.pc = "cache_places"
    /\ CACHE' = [CACHE EXCEPT !.today_choices = inflight.job.selected_places]
    /\ inflight' = [inflight EXCEPT !.job.pc = "cache_time"]
    /\ UNCHANGED <<placesTable, hoursTable, now, rows, last>>

\* _store_in_cache, second assignment: CACHE[GATHERING_TIME] = gathering_time
job_cache_time ==
    /\ inflight.job.pc = "cache_time"
    /\ CACHE' = [CACHE EXCEPT !.gathering_time = inflight.job.gathering_time]
    /\ inflight' = [inflight EXCEPT !.job.pc = "store"]
    /\ UNCHANGED <<placesTable, hoursTable, now, rows, last>>

\* _store_in_db and the end of pick_places
job_store(db) ==
    /\ inflight.job.pc = "store"
    /\ rows' = _store_in_db(rows, db, inflight.job.selected_places,
                            inflight.job.gathering_time).rows
    /\ last' = Did("pick_places", "returned", NoResponse,
                   inflight.job.statements + 1)
    /\ inflight' = [inflight EXCEPT !.job = IdleThread]
    /\ UNCHANGED <<placesTable, hoursTable, now, CACHE>>

\* get_choices, the tuple on the right of its first assignment: the read of
\* CACHE[TODAY_CHOICES]
request_read_places ==
    /\ inflight.request.pc = "idle"
    /\ inflight' = [inflight EXCEPT !.request =
                        Thread("read_time", CACHE.today_choices, NoTime, 0)]
    /\ UNCHANGED <<placesTable, hoursTable, now, rows, CACHE, last>>

\* ... and the read of CACHE[GATHERING_TIME]
request_read_time ==
    /\ inflight.request.pc = "read_time"
    /\ inflight' = [inflight EXCEPT !.request.gathering_time = CACHE.gathering_time,
                                    !.request.pc = "resolve"]
    /\ UNCHANGED <<placesTable, hoursTable, now, rows, CACHE, last>>

\* the locals of the request as a cache-shaped record, for Cold
Locals(thread) ==
    [EmptyCache EXCEPT !.today_choices = thread.selected_places,
                       !.gathering_time = thread.gathering_time]

\* get_choices, its first if: the store is read when a local is empty, and
\* unpacking None raises TypeError
request_resolve(db) ==
    /\ inflight.request.pc = "resolve"
    /\ UNCHANGED <<placesTable, hoursTable, now, rows, CACHE>>
    /\ IF ~ Cold(Locals(inflight.request))
       THEN /\ inflight' = [inflight EXCEPT !.request.pc = "answer"]
            /\ UNCHANGED last
       ELSE IF _get_places_and_gathering_time_from_db(rows, db) = <<>>
       THEN /\ inflight' = [inflight EXCEPT !.request = IdleThread]
            /\ last' = Did("get_choices", "raised", NoResponse, 1)
       ELSE /\ inflight' = [inflight EXCEPT !.request =
                    Thread("cache_places",
                           _get_places_and_gathering_time_from_db(rows, db)[1],
                           _get_places_and_gathering_time_from_db(rows, db)[2], 1)]
            /\ UNCHANGED last

\* _store_in_cache called by get_choices, first assignment
request_cache_places ==
    /\ inflight.request.pc = "cache_places"
    /\ CACHE' = [CACHE EXCEPT !.today_choices = inflight.request.selected_places]
    /\ inflight' = [inflight EXCEPT !.request.pc = "cache_time"]
    /\ UNCHANGED <<placesTable, hoursTable, now, rows, last>>

\* _store_in_cache called by get_choices, second assignment
request_cache_time ==
    /\ inflight.request.pc = "cache_time"
    /\ CACHE' = [CACHE EXCEPT !.gathering_time = inflight.request.gathering_time]
    /\ inflight' = [inflight EXCEPT !.request.pc = "answer"]
    /\ UNCHANGED <<placesTable, hoursTable, now, rows, last>>

\* get_choices from the response dict to its return, built from the locals
request_answer(db) ==
    /\ inflight.request.pc = "answer"
    /\ inflight' = [inflight EXCEPT !.request = IdleThread]
    /\ UNCHANGED <<placesTable, hoursTable, now, rows>>
    /\ LET selected_places == inflight.request.selected_places
           gathering_time == inflight.request.gathering_time
           n == inflight.request.statements
           today_selection == get_today_selection(rows, db)
       IN  IF CACHE.final_place # <<>>
           THEN /\ UNCHANGED CACHE
                /\ last' = Did("get_choices", "returned",
                               Response(selected_places, gathering_time,
                                        CACHE.final_place), n)
           ELSE IF ~ CanSubtractNow(gathering_time)
           THEN /\ UNCHANGED CACHE
                /\ last' = Did("get_choices", "raised", NoResponse, n)
           ELSE IF _is_within_two_hours_from_now(gathering_time)
                   /\ today_selection # 0
                   /\ rows[today_selection].final_place # <<>>
           THEN /\ CACHE' = [CACHE EXCEPT !.final_place =
                                 rows[today_selection].final_place]
                /\ last' = Did("get_choices", "returned",
                               Response(selected_places, gathering_time,
                                        rows[today_selection].final_place), n + 1)
           ELSE /\ UNCHANGED CACHE
                /\ last' = Did("get_choices", "returned",
                               Response(selected_places, gathering_time, <<>>),
                               IF _is_within_two_hours_from_now(gathering_time)
                               THEN n + 1 ELSE n)

JobStep ==
    \/ \E db \in DbStates : job_pick(db)
    \/ job_cache_places
    \/ job_cache_time
    \/ \E db \in DbStates : job_store(db)

RequestStep ==
    \/ request_read_places
    \/ request_read_time
    \/ \E db \in DbStates : request_resolve(db)
    \/ request_cache_places
    \/ request_cache_time
    \/ \E db \in DbStates : request_answer(db)

NextThreads == JobStep \/ RequestStep \/ Tick

SpecThreads == Init /\ [][NextThreads]_vars

----------------------------------------------------------------------------
(* Shorthands of the properties *)

\* today's row (the one get_today_selection finds when the store is up)
TodayRow == rows[get_today_selection(rows, "up")]

HasTodayRow == TodayRows(rows) # {}

\* now is within the finalization window of today's persisted gathering time
InWindowToday == HasTodayRow /\ TodayRow.gathering_time - now <= TwoHours

----------------------------------------------------------------------------
(* C1: once the persisted final_place of a row is set, no later step changes *)
(* its value.                                                                *)
C1_FinalPlaceWriteOnce ==
    [][\A i \in DOMAIN rows :
          rows[i].final_place # <<>> =>
              i \in DOMAIN rows' /\ rows'[i].final_place = rows[i].final_place]_vars

(* C2: in every reachable state the persisted final_place of a row, when    *)
(* set, is one of the places persisted in the same row.                     *)
C2_FinalPlaceIsMember ==
    \A i \in DOMAIN rows :
        rows[i].final_place # <<>> =>
            rows[i].final_place \in Range(Split(rows[i].places))

\* a finalize tick has committed a final place to today's row
C2_Witness ==
    /\ last.op = "pick_final_place"
    /\ HasTodayRow
    /\ TodayRow.final_place # <<>>
    /\ CACHE.final_place = TodayRow.final_place

(* C3: every response of get_choices that includes final_place has it among *)
(* the today_choices of the same response.                                  *)
C3_ResponseFinalIsMember ==
    (last.op = "get_choices" /\ last.result = "returned"
        /\ last.response.final_place # <<>>)
    => last.response.final_place \in Range(last.response.today_choices)

(* C4: while now is within 2 hours of the gathering time of today's row and *)
(* finalize ticks keep firing, the persisted final_place of that row is     *)
(* eventually set (or the window ends with the day).                        *)
C4_EventuallyFinalized ==
    InWindowToday ~> ((HasTodayRow /\ TodayRow.final_place # <<>>) \/ ~ InWindowToday)

(* C5: whenever the cache is non-empty, its places and gathering time equal *)
(* those of today's persisted row, and its final place, when set, equals    *)
(* the persisted one.                                                       *)
C5_CacheMirrorsStore ==
    CACHE # EmptyCache =>
        /\ HasTodayRow
        /\ CACHE.today_choices = Split(TodayRow.places)
        /\ CACHE.gathering_time = DateTime(TodayRow.gathering_time)
        /\ CACHE.final_place # <<>> => CACHE.final_place = TodayRow.final_place

(* C6: get_choices called when neither the cache nor the store holds a      *)
(* selection for today returns the sentinel response and does not fail.     *)
C6_NoSelectionSentinel ==
    [][(last'.op = "get_choices" /\ Cold(CACHE) /\ ~ HasTodayRow)
          => (last'.result = "returned" /\ last'.response = Sentinel)]_vars

(* C7: pick_final_place called when neither the cache nor the store holds a *)
(* selection for today returns normally and leaves store and cache as they  *)
(* were.                                                                    *)
C7_FinalizeWithoutSelection ==
    [][(last'.op = "pick_final_place" /\ Cold(CACHE) /\ ~ HasTodayRow)
          => (last'.result = "returned" /\ rows' = rows /\ CACHE' = CACHE)]_vars

(* C8: pick_places never raises past its caller, never leaves two rows for  *)
(* one date, and called on a date that already has a row leaves that row    *)
(* (its places and gathering time) as it was.                               *)
C8_SecondPickKeepsFirstRow ==
    [][last'.op = "pick_places" =>
          /\ last'.result = "returned"
          /\ \A i, j \in DOMAIN rows' : rows'[i].date = rows'[j].date => i = j
          /\ HasTodayRow => rows' = rows]_vars

\* pick_places has run on day 1 (whose row only an earlier pick_places can
\* have written) with a draw other than the one the row holds
C8_Witness ==
    /\ last.op = "pick_places"
    /\ Today = 1
    /\ HasTodayRow
    /\ CACHE.gathering_time.kind = "time"
    /\ \/ CACHE.today_choices # Split(TodayRow.places)
       \/ combine(Today, CACHE.gathering_time).v # TodayRow.gathering_time

(* C9: pick_final_place called more than 2 hours before today's gathering   *)
(* time changes no row and does not change the cache's final place: when    *)
(* unset it stays unset, with the cache warm or cold on entry.              *)
C9_OutsideWindowNoFinalize ==
    [][(last'.op = "pick_final_place" /\ HasTodayRow /\ ~ InWindowToday)
          => (rows' = rows /\ CACHE'.final_place = CACHE.final_place)]_vars

\* a cold finalize tick has read today's row outside the window and returned
C9_Witness ==
    /\ last.op = "pick_final_place"
    /\ last.result = "returned"
    /\ last.statements = 1
    /\ HasTodayRow /\ ~ InWindowToday
    /\ ~ Cold(CACHE)
    /\ CACHE.final_place = <<>>

(* C10: pick_final_place called while the cache holds a final place returns *)
(* without a statement against the store and changes no cache entry and no  *)
(* row.                                                                     *)
C10_ShortCircuit ==
    [][(last'.op = "pick_final_place" /\ CACHE.final_place # <<>>)
          => /\ last'.result = "returned"
             /\ last'.statements = 0
             /\ rows' = rows
             /\ CACHE' = CACHE]_vars

\* a finalize tick has short-circuited on an already selected final place
C10_Witness ==
    /\ last.op = "pick_final_place"
    /\ last.statements = 0
    /\ CACHE.final_place # <<>>
    /\ HasTodayRow /\ TodayRow.final_place = CACHE.final_place

(* C11: a get_choices call made with an empty cache while the store is up  *)
(* and holds a row for today returns the row's places and gathering time,  *)
(* returns the row's final_place when it has one, and leaves exactly those *)
(* values in the cache.                                                    *)
C11_ColdReadReproducesRow ==
    [][(get_choices("up") /\ Cold(CACHE) /\ HasTodayRow)
          => /\ last'.result = "returned"
             /\ last'.response =
                    Response(Split(TodayRow.places),
                             DateTime(TodayRow.gathering_time),
                             TodayRow.final_place)
             /\ CACHE' = [today_choices |-> Split(TodayRow.places),
                          gathering_time |-> DateTime(TodayRow.gathering_time),
                          final_place |-> TodayRow.final_place]]_vars

\* a cold read has returned a finalized row and filled the cache from it
C11_Witness ==
    /\ last.op = "get_choices"
    /\ last.result = "returned"
    /\ last.statements = 2
    /\ HasTodayRow
    /\ TodayRow.final_place # <<>>
    /\ last.response.final_place = TodayRow.final_place
    /\ CACHE.today_choices = Split(TodayRow.places)
    /\ CACHE.final_place = TodayRow.final_place

(* C12: get_choices leaves the store unchanged: no row of the place        *)
(* catalog, of the hour catalog or of daily_selection is created, modified *)
(* or deleted by a read.                                                   *)
C12_ReadLeavesStore ==
    [][last'.op = "get_choices"
          => /\ rows' = rows
             /\ placesTable' = placesTable
             /\ hoursTable' = hoursTable]_vars

\* a read inside the window has queried today's unfinalized row and answered
C12_Witness ==
    /\ last.op = "get_choices"
    /\ last.result = "returned"
    /\ last.statements >= 1
    /\ InWindowToday
    /\ TodayRow.final_place = <<>>
    /\ last.response.today_choices = Split(TodayRow.places)

(* C13: pick_places called when the place catalog or the hour catalog is   *)
(* empty changes neither the store nor the cache and does not raise past   *)
(* its caller.                                                             *)
C13_EmptyCatalogAborts ==
    [][(last'.op = "pick_places" /\ (placesTable = <<>> \/ hoursTable = <<>>))
          => /\ last'.result = "returned"
             /\ rows' = rows
             /\ CACHE' = CACHE]_vars

\* pick_places has run against an empty catalog
C13_Witness ==
    /\ last.op = "pick_places"
    /\ last.result = "returned"
    /\ placesTable = <<>> \/ hoursTable = <<>>

----------------------------------------------------------------------------
(* Catalogs of five places: the store as provisioned with five names, one  *)
(* of which may hold a comma (Place.name is any unique string).            *)

LargeCatalogs ==
    { <<Name("A"), Name("B"), Name("C"), Name("D"), Name("E")>>,
      <<Name("A"), Name("B"), Name("C"), Name("D"), <<"E", ",", "F">>>> }

InitLarge ==
    /\ placesTable \in LargeCatalogs
    /\ hoursTable = <<"02:00", "14:00">>
    /\ rows = <<>>
    /\ CACHE = EmptyCache
    /\ now = 0
    /\ last = NoOp
    /\ inflight = Idle

SpecLarge == InitLarge /\ [][Next]_vars

\* the places of a row, as the program reads them back
PlacesOf(row) == Split(row.places)

(* C14: for every catalog with at least 5 places and at least 1 hour, every *)
(* row written by pick_places has places that are pairwise distinct, number *)
(* between 3 and 5 and are members of the place catalog, and a gathering    *)
(* time whose date is today and whose time of day is in the hour catalog.   *)
C14_WrittenRowWellFormed ==
    [][(last'.op = "pick_places" /\ rows' # rows
            /\ Len(placesTable) >= 5 /\ Len(hoursTable) >= 1)
          => LET row == rows'[Len(rows')]
                 places == PlacesOf(row)
             IN  /\ \A i, j \in DOMAIN places : places[i] = places[j] => i = j
                 /\ Len(places) \in MinPlaces..MaxPlaces
                 /\ Range(places) \subseteq Range(placesTable)
                 /\ row.date = Today
                 /\ row.gathering_time \div DayLen = Today
                 /\ \E h \in Range(hoursTable) :
                        strptime(h).v = row.gathering_time % DayLen]_vars

(* C15: when pick_final_place persists no final place (no row for today at *)
(* commit time, or the commit fails), the cache's final place is still     *)
(* unset after the call, so that a later tick retries.                     *)
C15_NoPartialFinalize ==
    [][(/\ last'.op = "pick_final_place"
        /\ CACHE.final_place = <<>>
        /\ \/ ~ HasTodayRow
           \/ rows'[get_today_selection(rows, "up")].final_place = <<>>)
          => CACHE'.final_place = <<>>]_vars

(* C16: when the commit inside pick_places fails (today's row exists, or   *)
(* the store is unavailable) and no row is written, the cache's places and *)
(* gathering time after the call are those before the call.                *)
C16_FailedPickLeavesCache ==
    [][(last'.op = "pick_places" /\ rows' = rows)
          => /\ CACHE'.today_choices = CACHE.today_choices
             /\ CACHE'.gathering_time = CACHE.gathering_time]_vars

\* C17: a get_choices response never pairs the places of one selection with
\* the gathering time of another: the pair it returns alongside a date-time
\* is the pair of one persisted row or of one selection pick_places drew.
\* Expected of get_choices running while pick_places runs on the other
\* thread; the code tears the pair.
C17_ResponsePairOfOneSelection ==
    (/\ last.op = "get_choices"
     /\ last.result = "returned"
     /\ last.response.gathering_time.kind = "datetime")
        => \/ \E i \in DOMAIN rows :
                 /\ PlacesOf(rows[i]) = last.response.today_choices
                 /\ DateTime(rows[i].gathering_time) = last.response.gathering_time
           \/ \E p \in inflight.picks :
                 /\ p.selected_places = last.response.today_choices
                 /\ p.gathering_time.v = last.response.gathering_time.v % DayLen

\* C18: after a pick_places that persisted a row, the cache mirrors that
\* row: its places are the row's places and its gathering time is the same
\* date-time value as the one persisted (today's date combined with the
\* time of day drawn).
C18_CacheHoldsPersistedDateTime ==
    [][(last'.op = "pick_places" /\ rows' # rows)
          => /\ CACHE'.today_choices = PlacesOf(rows'[Len(rows')])
             /\ CACHE'.gathering_time = DateTime(rows'[Len(rows')].gathering_time)]_vars

\* the persisted state of one calendar date
Persisted(rs, date) ==
    IF \A i \in DOMAIN rs : rs[i].date # date THEN "NoSelection"
    ELSE IF \E i \in DOMAIN rs : rs[i].date = date /\ rs[i].final_place # <<>>
    THEN "Finalized"
    ELSE "PlacesChosen"

Dates(rs) == { rs[i].date : i \in DOMAIN rs }

\* C19: for each calendar date the persisted state only moves forward in
\* every step: a row is never deleted, a set final place never reverts to
\* unset, and a final place is only written to a row that already exists.
C19_PersistedStateMovesForward ==
    [][\A date \in Dates(rows) \cup Dates(rows') :
          /\ Persisted(rows, date) # "NoSelection"
                => Persisted(rows', date) # "NoSelection"
          /\ Persisted(rows, date) = "Finalized"
                => Persisted(rows', date) = "Finalized"
          /\ Persisted(rows, date) = "NoSelection"
                => Persisted(rows', date) # "Finalized"]_vars

\* two dates finalized, the second by the step just taken, the first kept
C19_Witness ==
    /\ last.op = "pick_final_place"
    /\ Len(rows) > 1
    /\ \A i \in DOMAIN rows : rows[i].final_place # <<>>
    /\ CACHE.final_place = TodayRow.final_place

\* C20: the finalization window has no lower cutoff: pick_final_place called
\* when now is later than today's gathering time, with today's selection
\* resolvable and no final place in the cache, finalizes: the call returns
\* and the cache and today's row hold a final place.
C20_NoLowerCutoff ==
    [][(/\ pick_final_place("up")
        /\ HasTodayRow
        /\ TodayRow.gathering_time < now
        /\ CACHE.final_place = <<>>)
          => /\ last'.result = "returned"
             /\ CACHE'.final_place # <<>>
             /\ rows'[get_today_selection(rows, "up")].final_place # <<>>]_vars

====
